---- MODULE Spec2Model ----
(***************************************************************************)
(* AlienPoker: backend/config.py (Config) and backend/auto_balancer.py     *)
(* (AutoBalancer.adjust, AutoBalancer.run).                                *)
(*                                                                         *)
(* Numbers.  The program's floats are modelled as exact decimal            *)
(* fixed-point numbers in units of 1/Scale (0.001): 0.05 is 50, 0.8 is     *)
(* 800, 3.0 is 3000.  A float holds finitely many digits: the actuator is   *)
(* held to a resolution of Quantum units (0.004; in the program, 2^-52 of   *)
(* its magnitude), and the sum a + learning_rate * gap is rounded to the    *)
(* nearest value of that resolution, so that a step below half the          *)
(* resolution is absorbed, as it is by the program's float addition.        *)
(* Every engine statistic and every target is a multiple of 0.005, for      *)
(* which learning_rate * gap is a whole number of quanta and the sum is     *)
(* exact.  NaN and the infinities are outside the model.                    *)
(***************************************************************************)
EXTENDS Integers, FiniteSets, Sequences, TLC

VARIABLES
    config,          \* the Config instance shared by balancer and engines
    config0,         \* history: config as it was when the balancer was built
    engine_class,    \* self.engine_class
    min_edge,        \* self.min_edge
    max_edge,        \* self.max_edge
    target,          \* self.target
    learning_rate,   \* self.learning_rate
    pc,              \* position of the caller / of run()
    max_iterations,  \* run()'s argument
    i,               \* run()'s loop index (the index of the next iteration at pc = "for")
    engine,          \* run()'s local `engine`
    result,          \* run()'s local `result`
    edge,            \* run()'s local `edge`
    returned,        \* what run() returned to its caller
    raised,          \* the exception that left run()
    constructed,     \* history: engines constructed by the current run()
    simulated,       \* history: simulate() calls made by the current run()
    adjusted,        \* history: adjust() calls made by the current run()
    start,           \* history: bust_multiplier when the current run() was called
    arg,             \* history: the argument of the latest adjust() call (0 before the first)
    before,          \* history: bust_multiplier when the latest adjust() was called (0 before the first)
    prior,           \* history: "converged" when the current run() was called right after a
                     \*   run() that returned by convergence, "other" otherwise
    step,            \* history: the last step taken
    calls            \* history: calls made by the caller so far

vars == <<config, config0, engine_class, min_edge, max_edge, target, learning_rate,
          pc, max_iterations, i, engine, result, edge, returned, raised,
          constructed, simulated, adjusted, start, arg, before, prior, step, calls>>

balancer == <<engine_class, min_edge, max_edge, target, learning_rate>>
locals == <<max_iterations, i, engine, result, edge>>
outcome == <<returned, raised>>
history == <<constructed, simulated, adjusted, start, prior>>
latest == <<arg, before>>

----------------------------------------------------------------------------
(* Bounds of the model *)

\* the largest max_iterations a caller passes to run()
MaxIter == 3
\* the number of calls (run, adjust, attribute write) a caller makes
MaxCalls == 2

----------------------------------------------------------------------------
(* Numbers *)

\* one unit of the fixed-point representation is 1/Scale
Scale == 1000

\* the resolution of the float that holds the actuator, in units
Quantum == 4

\* x / y rounded to the nearest integer
RoundDiv(x, y) == (2 * x + y) \div (2 * y)

\* the clamp range of adjust(): 0.5 and 3.0
ClampMin == 500
ClampMax == 3000

\* values a caller gives bust_multiplier (1.0 is the default), in and out of
\* the clamp range
Actuators == {-1000, 1000, 2976, 5000}

\* values a caller gives target_edge (0.05 is the default)
Targets == {50, 100}

\* house edges an engine may report: far below, the band's two ends, 0.20,
\* far above
Stats == {-100000, 30, 70, 200, 100000}

\* house edges a caller passes to adjust(): those, one just below the band, the
\* targets (no error), and one so close to the default target that its step
\* is below the resolution of the actuator
AdjustArgs == Stats \cup Targets \cup {25, 51}

\* the smallest max_iterations a caller passes to run()
MinIter == -1

None == "None"

\* the value of a result variable that holds no result record (engine ids start at 1)
NoResult == [house_edge |-> 0, engine |-> 0]

----------------------------------------------------------------------------
(* Config *)

DefaultTubeInitial == [ST |-> 5000, FL |-> 10000, FH |-> 15000, SF |-> 20000, RF |-> 25000]

Config(target_edge, bust_multiplier) ==
    [players |-> 4, ante |-> 5, rounds |-> 20000,
     target_edge |-> target_edge, bust_multiplier |-> bust_multiplier,
     tube_initial |-> DefaultTubeInitial]

----------------------------------------------------------------------------
(* Engines: the collaborator injected as engine_class *)

\* "free": simulate() reports any house edge, or fails.
\* "stub": a deterministic engine whose house edge is the strictly decreasing
\*         function 5 * (K - bust_multiplier) / D of the bust multiplier.
EngineClasses ==
    {[kind |-> "free", K |-> 0, D |-> 1]} \cup
    {[kind |-> "stub", K |-> 3040, D |-> 4],
     [kind |-> "stub", K |-> 1040, D |-> 4],
     [kind |-> "stub", K |-> 1010, D |-> 1]}

StubEdge(ec, a) == (5 * (ec.K - a)) \div ec.D

\* the house edges simulate() of engine e can report
SimulateResults(e) ==
    IF e.class.kind = "free" THEN Stats
    ELSE {StubEdge(e.class, e.config.bust_multiplier)}

\* whether simulate() of engine e can fail
SimulateCanFail(e) == e.class.kind = "free"

----------------------------------------------------------------------------
(* AutoBalancer.adjust *)

\* (mutant) the gap with its sign reversed
Gap_Reversed(e) == e - target

\* (mutant) the gap taken from the Config's target_edge at the time of the call
Gap_Live(e) == config.target_edge - e

Gap(e) == target - e

\* (mutant) the step computed from the edge alone, the target forgotten
Stepped_NoTarget(a, e) == a - (learning_rate * e) \div Scale

\* self.config.bust_multiplier += self.learning_rate * gap, the sum rounded to
\* the resolution of the actuator
Stepped(a, e) ==
    Quantum * RoundDiv(Scale * a + learning_rate * Gap(e), Scale * Quantum)

ClampLow(x) == IF x < ClampMin THEN ClampMin ELSE x

ClampHigh(x) == IF x > ClampMax THEN ClampMax ELSE x

\* (mutant) adjust without its upper clamp
adjust_NoUpperClamp(a, e) == ClampLow(Stepped(a, e))

\* (mutant) adjust without its lower clamp
adjust_NoLowerClamp(a, e) == ClampHigh(Stepped(a, e))

\* the bust multiplier adjust(e) leaves, from bust multiplier a
adjust(a, e) == ClampHigh(ClampLow(Stepped(a, e)))

\* (mutant) adjust writing its result to target_edge as well
AdjustConfig_WritesTarget(c, e) ==
    [c EXCEPT !.bust_multiplier = adjust(c.bust_multiplier, e),
              !.target_edge = adjust(c.bust_multiplier, e)]

\* the Config adjust(e) leaves
AdjustConfig(c, e) == [c EXCEPT !.bust_multiplier = adjust(c.bust_multiplier, e)]

\* (mutant) the band test with strict comparisons
InBand_Strict(e) == min_edge < e /\ e < max_edge

\* self.min_edge <= edge <= self.max_edge
InBand(e) == min_edge <= e /\ e <= max_edge

----------------------------------------------------------------------------
(* Construction: Config(...), AutoBalancer(engine_class, config) *)

Init ==
    /\ \E t \in Targets, a \in Actuators : config = Config(t, a)
    /\ config0 = config
    /\ engine_class \in EngineClasses
    /\ min_edge = 30
    /\ max_edge = 70
    /\ target = config.target_edge
    /\ learning_rate = 800
    /\ pc = "idle"
    /\ max_iterations = 0
    /\ i = 0
    /\ engine = None
    /\ result = NoResult
    /\ edge = None
    /\ returned = NoResult
    /\ raised = None
    /\ constructed = 0
    /\ simulated = 0
    /\ adjusted = 0
    /\ start = config.bust_multiplier
    /\ arg = 0
    /\ before = 0
    /\ prior = "other"
    /\ step = "init"
    /\ calls = 0

\* the caller is between calls
Outside == pc \in {"idle", "returned", "raised"}

----------------------------------------------------------------------------
(* The caller *)

\* config.bust_multiplier = v, by the caller
SetBustMultiplier(v) ==
    /\ Outside
    /\ calls < MaxCalls
    /\ config' = [config EXCEPT !.bust_multiplier = v]
    /\ calls' = calls + 1
    /\ step' = "write"
    /\ UNCHANGED <<config0, balancer, pc, locals, outcome, history, latest>>

\* config.target_edge = t, by the caller
SetTargetEdge(t) ==
    /\ Outside
    /\ calls < MaxCalls
    /\ config' = [config EXCEPT !.target_edge = t]
    /\ calls' = calls + 1
    /\ step' = "write"
    /\ UNCHANGED <<config0, balancer, pc, locals, outcome, history, latest>>

\* balancer.adjust(e), called directly
AdjustCall(e) ==
    /\ Outside
    /\ calls < MaxCalls
    /\ config' = AdjustConfig(config, e)
    /\ arg' = e
    /\ before' = config.bust_multiplier
    /\ calls' = calls + 1
    /\ step' = "adjust"
    /\ UNCHANGED <<config0, balancer, pc, locals, outcome, history>>

\* (mutant) run() starting over from the default bust multiplier
RunCall_Resets(n) ==
    /\ Outside
    /\ calls < MaxCalls
    /\ calls' = calls + 1
    /\ pc' = "for"
    /\ max_iterations' = n
    /\ i' = 0
    /\ engine' = None
    /\ result' = NoResult
    /\ edge' = None
    /\ returned' = NoResult
    /\ raised' = None
    /\ constructed' = 0
    /\ simulated' = 0
    /\ adjusted' = 0
    /\ start' = config.bust_multiplier
    /\ prior' = IF step = "converge" THEN "converged" ELSE "other"
    /\ step' = "call"
    /\ config' = [config EXCEPT !.bust_multiplier = 1000]
    /\ UNCHANGED <<config0, balancer, latest>>

\* balancer.run(n) is called
RunCall(n) ==
    /\ Outside
    /\ calls < MaxCalls
    /\ calls' = calls + 1
    /\ pc' = "for"
    /\ max_iterations' = n
    /\ i' = 0
    /\ engine' = None
    /\ result' = NoResult
    /\ edge' = None
    /\ returned' = NoResult
    /\ raised' = None
    /\ constructed' = 0
    /\ simulated' = 0
    /\ adjusted' = 0
    /\ start' = config.bust_multiplier
    /\ prior' = IF step = "converge" THEN "converged" ELSE "other"
    /\ step' = "call"
    /\ UNCHANGED <<config, config0, balancer, latest>>

----------------------------------------------------------------------------
(* AutoBalancer.run *)

\* (mutant) the loop running one iteration too many
LoopContinues_OneMore == i <= max_iterations

\* for i in range(max_iterations): whether the loop has another iteration
LoopContinues == i < max_iterations

\* (mutant) the engine built once and reused by the later iterations
Construct_Reused ==
    /\ pc = "for"
    /\ LoopContinues
    /\ IF constructed = 0
         THEN /\ engine' = [id |-> 1, class |-> engine_class, config |-> config]
              /\ constructed' = 1
         ELSE UNCHANGED <<engine, constructed>>
    /\ pc' = "simulate"
    /\ step' = "construct"
    /\ UNCHANGED <<config, config0, balancer, max_iterations, i, result, edge,
                   outcome, simulated, adjusted, start, prior, latest, calls>>

\* for i in range(max_iterations): engine = self.engine_class(self.config)
Construct ==
    /\ pc = "for"
    /\ LoopContinues
    /\ engine' = [id |-> constructed + 1, class |-> engine_class, config |-> config]
    /\ constructed' = constructed + 1
    /\ pc' = "simulate"
    /\ step' = "construct"
    /\ UNCHANGED <<config, config0, balancer, max_iterations, i, result, edge,
                   outcome, simulated, adjusted, start, prior, latest, calls>>

\* result = engine.simulate(); edge = result["house_edge"]
Simulate ==
    /\ pc = "simulate"
    /\ \E e \in SimulateResults(engine) :
          /\ result' = [house_edge |-> e, engine |-> engine.id]
          /\ edge' = e
    /\ simulated' = simulated + 1
    /\ pc' = "check"
    /\ step' = "simulate"
    /\ UNCHANGED <<config, config0, balancer, max_iterations, i, engine,
                   outcome, constructed, adjusted, start, prior, latest, calls>>

\* (mutant) the engine's exception caught, the iteration tried again
SimulateFails_Retried ==
    /\ pc = "simulate"
    /\ SimulateCanFail(engine)
    /\ simulated < max_iterations + 1
    /\ simulated' = simulated + 1
    /\ pc' = "for"
    /\ step' = "fault"
    /\ UNCHANGED <<config, config0, balancer, locals, outcome,
                   constructed, adjusted, start, prior, latest, calls>>

\* engine.simulate() raises: the exception leaves run()
SimulateFails ==
    /\ pc = "simulate"
    /\ SimulateCanFail(engine)
    /\ simulated' = simulated + 1
    /\ raised' = "EngineFault"
    /\ pc' = "raised"
    /\ step' = "fault"
    /\ UNCHANGED <<config, config0, balancer, locals, returned,
                   constructed, adjusted, start, prior, latest, calls>>

\* if self.min_edge <= edge <= self.max_edge: return result
Converge ==
    /\ pc = "check"
    /\ InBand(edge)
    /\ returned' = result
    /\ pc' = "returned"
    /\ step' = "converge"
    /\ UNCHANGED <<config, config0, balancer, locals, raised, history, latest, calls>>

\* (mutant) no adjust() after the last simulation of the budget
AdjustStep_SkipLast ==
    /\ pc = "check"
    /\ ~InBand(edge)
    /\ IF i + 1 < max_iterations
         THEN /\ config' = AdjustConfig(config, edge)
              /\ arg' = edge
              /\ before' = config.bust_multiplier
              /\ adjusted' = adjusted + 1
         ELSE UNCHANGED <<config, arg, before, adjusted>>
    /\ i' = i + 1
    /\ pc' = "for"
    /\ step' = "adjust"
    /\ UNCHANGED <<config0, balancer, max_iterations, engine, result, edge,
                   outcome, constructed, simulated, start, prior, calls>>

\* self.adjust(edge), and on to the next iteration
AdjustStep ==
    /\ pc = "check"
    /\ ~InBand(edge)
    /\ config' = AdjustConfig(config, edge)
    /\ arg' = edge
    /\ before' = config.bust_multiplier
    /\ adjusted' = adjusted + 1
    /\ i' = i + 1
    /\ pc' = "for"
    /\ step' = "adjust"
    /\ UNCHANGED <<config0, balancer, max_iterations, engine, result, edge,
                   outcome, constructed, simulated, start, prior, calls>>

\* the loop is over: return result
Exhaust ==
    /\ pc = "for"
    /\ ~LoopContinues
    /\ result # NoResult
    /\ returned' = result
    /\ pc' = "returned"
    /\ step' = "exhaust"
    /\ UNCHANGED <<config, config0, balancer, locals, raised, history, latest, calls>>

\* (mutant) the empty loop returning silently, with nothing
Unbound_ReturnsNothing ==
    /\ pc = "for"
    /\ ~LoopContinues
    /\ result = NoResult
    /\ pc' = "returned"
    /\ step' = "unbound"
    /\ UNCHANGED <<config, config0, balancer, locals, outcome, history, latest, calls>>

\* the loop is over and `result` was never assigned: UnboundLocalError
Unbound ==
    /\ pc = "for"
    /\ ~LoopContinues
    /\ result = NoResult
    /\ raised' = "UnboundLocalError"
    /\ pc' = "raised"
    /\ step' = "unbound"
    /\ UNCHANGED <<config, config0, balancer, locals, returned, history, latest, calls>>

----------------------------------------------------------------------------

Next ==
    \/ \E v \in Actuators : SetBustMultiplier(v)
    \/ \E t \in Targets : SetTargetEdge(t)
    \/ \E e \in AdjustArgs : AdjustCall(e)
    \/ \E n \in MinIter..MaxIter : RunCall(n)
    \/ Construct
    \/ Simulate
    \/ SimulateFails
    \/ Converge
    \/ AdjustStep
    \/ Exhaust
    \/ Unbound

Spec == Init /\ [][Next]_vars

\* a step of run(): the code of run() is synchronous and goes on until it
\* returns or raises
RunStep ==
    \/ Construct
    \/ Simulate
    \/ SimulateFails
    \/ Converge
    \/ AdjustStep
    \/ Exhaust
    \/ Unbound

\* a run() that was called keeps executing (every simulate() call ends);
\* every step of run() changes pc
FairSpec == Spec /\ WF_pc(RunStep)

----------------------------------------------------------------------------
(* Vocabulary of the properties *)

\* a is within the clamp range [0.5, 3.0]
InRange(a) == ClampMin <= a /\ a <= ClampMax

\* e is within the band [0.03, 0.07]
InBandLiteral(e) == 30 <= e /\ e <= 70

\* run() has just returned a result record
RunReturned == step \in {"converge", "exhaust"}

Min2(x, y) == IF x <= y THEN x ELSE y

Max2(x, y) == IF x >= y THEN x ELSE y

\* a + 0.8 * (t - m) in the program's arithmetic (the sum rounded to the
\* resolution of the actuator), clamped: min(3.0, max(0.5, a + 0.8 * (t - m)))
ProportionalStep(a, t, m) ==
    LET x == Quantum * RoundDiv(1000 * a + 800 * (t - m), 1000 * Quantum)
    IN  Min2(3000, Max2(500, x))

\* the Config without its actuator
Frame(c) == [c EXCEPT !.bust_multiplier = 0]

\* the engine class is a deterministic stub with a strictly decreasing house edge
IsStub == engine_class.kind = "stub"

\* some bust multiplier within the clamp range gives the stub a house edge
\* inside the band
StubHasSolution ==
    \E k \in 0..((ClampMax - ClampMin) \div 4) :
        InBandLiteral(StubEdge(engine_class, ClampMin + 4 * k))

----------------------------------------------------------------------------
(* C1 *)

\* C1: whatever the bust multiplier was (in or out of range) and however large
\* the gap, the bust multiplier is within [0.5, 3.0] right after every adjust()
\* call, direct or made by run().
C1_ClampInvariant == step = "adjust" => InRange(config.bust_multiplier)

\* an adjust() from an out-of-range bust multiplier with a huge gap
C1_Witness ==
    /\ step = "adjust"
    /\ before = -1000
    /\ arg = -100000
    /\ config.bust_multiplier = ClampMax

----------------------------------------------------------------------------
(* C2 *)

\* C2 (as claimed): with a deterministic stub engine whose house edge strictly
\* decreases with the bust multiplier and is inside the band for some bust
\* multiplier of the clamp range, run() returns a result inside the band.
\* Stated here for the default target, a start within the clamp range and the
\* largest iteration budget.
C2_Original ==
    (/\ IsStub
     /\ RunReturned
     /\ max_iterations = MaxIter
     /\ target = 50
     /\ InRange(start)
     /\ StubHasSolution)
    => InBandLiteral(returned.house_edge)

\* C2 (amended): with such a stub, a target inside the band and a start within
\* the clamp range, run() returns after at most max_iterations simulations, and
\* it returns a result inside the band exactly when the house edge at the
\* starting bust multiplier is inside the band, in which case it stops at
\* iteration 0: every adjust() moves the bust multiplier away from the band.
C2_Amended ==
    (/\ IsStub
     /\ RunReturned
     /\ InBandLiteral(target)
     /\ InRange(start))
    => /\ simulated <= max_iterations
       /\ InBandLiteral(returned.house_edge)
             <=> InBandLiteral(StubEdge(engine_class, start))
       /\ InBandLiteral(returned.house_edge) => simulated = 1 /\ adjusted = 0
       /\ ~InBandLiteral(returned.house_edge) => simulated = max_iterations

\* a stub with a solution in range, started in range outside the band: the
\* run exhausts its budget
C2_Witness ==
    /\ IsStub
    /\ step = "exhaust"
    /\ InBandLiteral(target)
    /\ InRange(start)
    /\ StubHasSolution
    /\ max_iterations >= 3
    /\ ~InBandLiteral(returned.house_edge)

----------------------------------------------------------------------------
(* C3 *)

\* C3: when an iteration's house edge is within [0.03, 0.07], both ends
\* included, the next step of run() is the return of that iteration's result:
\* no adjust(), no change of the Config, no further engine, no further
\* simulation; and after the return nothing of the run happens any more.
C3_InclusiveBand ==
    [][/\ (pc = "check" /\ InBandLiteral(edge))
          => /\ step' = "converge"
             /\ pc' = "returned"
             /\ returned' = result
             /\ returned'.engine = i + 1
             /\ config' = config
             /\ adjusted' = adjusted
             /\ constructed' = constructed
             /\ simulated' = simulated
       /\ pc = "returned"
          => \/ step' = "call"
             \/ /\ adjusted' = adjusted
                /\ constructed' = constructed
                /\ simulated' = simulated
                /\ returned' = returned]_vars

\* a run that converged on a house edge of exactly 0.07 after one adjustment
C3_Witness ==
    /\ step = "converge"
    /\ returned.house_edge = 70
    /\ adjusted = 1
    /\ config.bust_multiplier = engine.config.bust_multiplier

----------------------------------------------------------------------------
(* C4 *)

\* C4: a run(max_iterations >= 1) that returns a result outside the band (no
\* house edge entered it) has made exactly max_iterations simulations, raised
\* nothing, and returns the record of the last simulation.
C4_Exhaustion ==
    (/\ RunReturned
     /\ max_iterations >= 1
     /\ ~InBandLiteral(returned.house_edge))
    => /\ step = "exhaust"
       /\ raised = None
       /\ simulated = max_iterations
       /\ constructed = max_iterations
       /\ returned = result
       /\ returned.engine = max_iterations
       /\ returned.house_edge = edge

\* an exhausted run of three iterations returning the third record
C4_Witness ==
    /\ step = "exhaust"
    /\ max_iterations = 3
    /\ returned.engine = 3
    /\ ~InBandLiteral(returned.house_edge)

----------------------------------------------------------------------------
(* C5 *)

\* C5 (as claimed): adjust(target) leaves the bust multiplier unchanged,
\* whatever value the Config holds.
C5_Original ==
    (step = "adjust" /\ arg = target) => config.bust_multiplier = before

\* C5 (amended): adjust(target) leaves a bust multiplier within [0.5, 3.0]
\* unchanged; one outside the range is clamped to the nearer end.
C5_Amended ==
    (step = "adjust" /\ arg = target)
    => /\ InRange(before) => config.bust_multiplier = before
       /\ before < ClampMin => config.bust_multiplier = ClampMin
       /\ before > ClampMax => config.bust_multiplier = ClampMax

\* adjust(target) on the default bust multiplier
C5_Witness ==
    /\ step = "adjust"
    /\ arg = target
    /\ before = 1000
    /\ config.bust_multiplier = 1000

----------------------------------------------------------------------------
(* C6 *)

\* C6: when run() returns a record, the returned house edge is inside
\* [0.03, 0.07] or exactly max_iterations simulations were made; and a run that
\* started within [0.5, 3.0] ends within [0.5, 3.0].
C6_StopDichotomy ==
    RunReturned
    => /\ InBandLiteral(returned.house_edge) \/ simulated = max_iterations
       /\ InRange(start) => InRange(config.bust_multiplier)

\* a run from an in-range start that converged before its budget was spent,
\* after an adjustment that hit the lower clamp
C6_Witness ==
    /\ step = "converge"
    /\ InRange(start)
    /\ simulated < max_iterations
    /\ adjusted >= 1
    /\ config.bust_multiplier = ClampMin

----------------------------------------------------------------------------
(* C7 *)

\* C7: when simulate() fails at iteration i, run() is left with the fault at
\* once: nothing is returned, i + 1 engines were constructed and simulated,
\* adjust() was called i times, the Config is the one the failing engine was
\* constructed from, and the run does nothing more.
C7_FaultPropagates ==
    /\ [](step = "fault"
          => /\ pc = "raised"
             /\ raised = "EngineFault"
             /\ returned = NoResult
             /\ constructed = i + 1
             /\ simulated = i + 1
             /\ adjusted = i
             /\ config = engine.config)
    /\ [][pc = "raised"
          => \/ step' = "call"
             \/ /\ pc' = "raised"
                /\ constructed' = constructed
                /\ simulated' = simulated
                /\ adjusted' = adjusted
                /\ raised' = raised]_vars

\* a fault at iteration 1, after one adjustment
C7_Witness ==
    /\ step = "fault"
    /\ i = 1
    /\ adjusted = 1
    /\ config.bust_multiplier # start

----------------------------------------------------------------------------
(* C8 *)

\* C8: no step of the balancer (adjust() or any step of run()) changes a Config
\* field other than bust_multiplier, and the balancer's band limits and
\* learning rate are 0.03, 0.07 and 0.8 throughout.
C8_Frame ==
    /\ [](min_edge = 30 /\ max_edge = 70 /\ learning_rate = 800)
    /\ [][step' # "write"
          => /\ Frame(config') = Frame(config)
             /\ target' = target]_vars

\* two adjustments of a run have moved the actuator and nothing else
C8_Witness ==
    /\ step = "adjust"
    /\ adjusted = 2
    /\ config.bust_multiplier # config0.bust_multiplier
    /\ Frame(config) = Frame(config0)

----------------------------------------------------------------------------
(* C9 *)

\* C9: from a bust multiplier a within [0.5, 3.0], adjust(m) leaves
\* min(3.0, max(0.5, a + 0.8 * (target - m))), which is a + 0.8 * (target - m)
\* itself when that is within the range.
C9_ClampedStep ==
    (step = "adjust" /\ InRange(before))
    => LET x == Quantum * RoundDiv(1000 * before + 800 * (config0.target_edge - arg),
                                   1000 * Quantum)
       IN  /\ config.bust_multiplier = ProportionalStep(before, config0.target_edge, arg)
           /\ InRange(x) => config.bust_multiplier = x

\* a = 1.0, target = 0.05, m = 0.20: the bust multiplier becomes 0.88
C9_Witness ==
    /\ step = "adjust"
    /\ before = 1000
    /\ config0.target_edge = 50
    /\ arg = 200
    /\ config.bust_multiplier = 880

----------------------------------------------------------------------------
(* C10 *)

\* C10: at the head of iteration i, i engines were constructed, simulated and
\* followed by an adjust(); the engine of iteration i is the (i+1)-th one, built
\* from the Config as it is then and not yet simulated; the result of iteration
\* i comes from that engine, simulated once; when run() ends, as many engines
\* were constructed as simulate() calls were made.
C10_FreshEngine ==
    /\ pc = "for"
       => constructed = i /\ simulated = i /\ adjusted = i
    /\ pc = "simulate"
       => /\ constructed = i + 1
          /\ simulated = i
          /\ adjusted = i
          /\ engine.id = i + 1
          /\ engine.config = config
    /\ pc = "check"
       => /\ constructed = i + 1
          /\ simulated = i + 1
          /\ engine.id = i + 1
          /\ result.engine = engine.id
    /\ step \in {"converge", "exhaust", "fault", "unbound"}
       => constructed = simulated

\* the engine of iteration 2, built from an adjusted Config
C10_Witness ==
    /\ pc = "simulate"
    /\ i = 2
    /\ engine.id = 3
    /\ engine.config.bust_multiplier # start

----------------------------------------------------------------------------
(* C12 *)

\* C12: a run() makes no more than max_iterations simulate() calls and no more
\* than max_iterations adjust() calls; a run() that was called always stops;
\* and with a budget of at least one it stops by returning a record unless a
\* simulate() call failed.
C12_BoundedTermination ==
    /\ [](/\ simulated <= Max2(max_iterations, 0)
          /\ adjusted <= Max2(max_iterations, 0)
          /\ (pc = "raised" /\ max_iterations >= 1) => raised = "EngineFault")
    /\ (~Outside) ~> Outside

\* a run of the free engine that spent its whole budget of three simulations
\* and three adjustments
C12_Witness ==
    /\ ~IsStub
    /\ pc = "returned"
    /\ max_iterations = 3
    /\ simulated = 3
    /\ adjusted = 3

----------------------------------------------------------------------------
(* C13 *)

----------------------------------------------------------------------------
(* C14 *)

\* C14: a run(max_iterations <= 0) constructs no engine, simulates nothing,
\* adjusts nothing, leaves the Config as it was, returns no record and ends
\* with an error (UnboundLocalError).
C14_EmptyBudget ==
    (max_iterations <= 0 /\ pc # "idle")
    => /\ pc \in {"for", "raised"}
       /\ constructed = 0
       /\ simulated = 0
       /\ adjusted = 0
       /\ returned = NoResult
       /\ pc = "raised" => raised = "UnboundLocalError"
       /\ step \in {"call", "unbound"} => config.bust_multiplier = start

\* run(-1) has ended with the error
C14_Witness ==
    /\ step = "unbound"
    /\ max_iterations = -1
    /\ raised = "UnboundLocalError"
    /\ config = config0

----------------------------------------------------------------------------
(* C15 *)

\* C15: the balancer's target is the Config's target_edge at construction,
\* whatever is written to config.target_edge later, and every adjust() computes
\* its step against that value.
C15_TargetSnapshot ==
    /\ target = config0.target_edge
    /\ step = "adjust"
       => config.bust_multiplier = ProportionalStep(before, config0.target_edge, arg)

\* an adjust() after a write to config.target_edge, where the written target
\* would have given another bust multiplier
C15_Witness ==
    /\ step = "adjust"
    /\ config.target_edge # config0.target_edge
    /\ config.bust_multiplier # ProportionalStep(before, config.target_edge, arg)

----------------------------------------------------------------------------
(* C16 *)

\* C16: run() starts from the bust multiplier the Config holds when it is
\* called (no reset); with a deterministic engine, a run() with a budget of at
\* least one called right after a run() that returned by convergence makes one
\* simulation, no adjustment, returns a record inside the band and leaves the
\* bust multiplier as it was.
C16_SecondRun ==
    /\ step = "call" => config.bust_multiplier = start
    /\ (IsStub /\ prior = "converged" /\ max_iterations >= 1)
       => /\ adjusted = 0
          /\ pc \in {"for", "simulate", "check", "returned"}
          /\ pc = "for" => i = 0 /\ simulated = 0
          /\ pc = "check" => InBandLiteral(edge)
          /\ pc = "returned"
             => simulated = 1 /\ constructed = 1 /\ InBandLiteral(returned.house_edge)
          /\ step \in {"call", "construct", "simulate", "converge"}
             => config.bust_multiplier = start

\* the second run has converged at once, on the bust multiplier to which the
\* first run had moved the actuator
C16_Witness ==
    /\ IsStub
    /\ prior = "converged"
    /\ step = "converge"
    /\ simulated = 1
    /\ start # config0.bust_multiplier
    /\ config.bust_multiplier = start

----------------------------------------------------------------------------
(* C17 *)

====
